---------------------------- MODULE Spec2Model ----------------------------
(***************************************************************************)
(* A model of gps_parser.py: the GPX track reader (parse_gpx), the         *)
(* bounding-box filter (filter_coords_by_bbox), the QGroundControl plan    *)
(* builder (create_plan_json) and the command-line driver (main).          *)
(*                                                                         *)
(* Python values are modelled as follows.                                  *)
(*   str    a sequence of one-character strings, so that startswith, in,   *)
(*          split, strip and float()/int() are computed, not assumed       *)
(*   float  Fl(n) for the number n, or NaN; every comparison with NaN is   *)
(*          false, as in IEEE 754                                          *)
(*   None   an option record: NoneVal, or Some(x)                          *)
(***************************************************************************)
EXTENDS Integers, Sequences, FiniteSets, TLC

VARIABLES
    entry,          \* the function the run entered through
    pc,             \* position of the run
    argv,           \* sys.argv[1:], a sequence of strings
    file,           \* the input track file on disk
    step,           \* stride (main's local / create_plan_json's parameter)
    lat1, lon1, lat2, lon2,   \* the two corners
    default_alt,    \* create_plan_json's default_alt
    coords,         \* parse_gpx's result (option of a point sequence)
    coords_in_box,  \* filter_coords_by_bbox's result / the builder's input
    plan_data,      \* create_plan_json's result (option of a plan)
    ret_line,       \* the return statement create_plan_json left through
    io,             \* file operations and builder calls, in order
    exit_code       \* the process exit status, -1 while running

vars == <<entry, pc, argv, file, step, lat1, lon1, lat2, lon2, default_alt,
          coords, coords_in_box, plan_data, ret_line, io, exit_code>>

-----------------------------------------------------------------------------
(* Bounds of the model *)

MaxElems == 2       \* elements under the root of an input document
MaxLen == 4         \* points in a sequence handed to create_plan_json
MaxBoxLen == 2      \* points in a sequence handed to filter_coords_by_bbox
MaxCoord == 2       \* directly supplied coordinates range over 0..MaxCoord
MaxStride == 4      \* directly supplied strides range up to MaxStride

-----------------------------------------------------------------------------
(* Python values *)

NoneVal == [none |-> TRUE, val |-> <<>>]
Some(x) == [none |-> FALSE, val |-> x]

NaN == [nan |-> TRUE, v |-> 0]
Fl(n) == [nan |-> FALSE, v |-> n]

\* a < b and a <= b on floats
FLt(a, b) == ~a.nan /\ ~b.nan /\ a.v < b.v
FLe(a, b) == ~a.nan /\ ~b.nan /\ a.v <= b.v

\* builtin min(a, b): the first argument unless the second is smaller
PyMin(a, b) == IF FLt(b, a) THEN b ELSE a
\* builtin max(a, b): the first argument unless the second is larger
PyMax(a, b) == IF FLt(a, b) THEN b ELSE a

\* "(" + s + ")" and friends: concatenation is \o

\* s.startswith(p)
StartsWith(s, p) == Len(s) >= Len(p) /\ SubSeq(s, 1, Len(p)) = p

\* sub in s
Contains(s, sub) ==
    \E i \in 1..(Len(s) - Len(sub) + 1) : SubSeq(s, i, i + Len(sub) - 1) = sub

\* s.split(c)[0]: the part before the first c, or all of s
SplitFirst(s, c) ==
    IF \E i \in 1..Len(s) : s[i] = c
    THEN LET i == CHOOSE j \in 1..Len(s) :
                    s[j] = c /\ \A k \in 1..(j - 1) : s[k] # c
         IN  SubSeq(s, 1, i - 1)
    ELSE s

\* s.strip(c) for a set of characters: leading and trailing ones removed
StripChars(s, cs) ==
    IF \A i \in 1..Len(s) : s[i] \in cs
    THEN <<>>
    ELSE LET lo == CHOOSE j \in 1..Len(s) :
                      s[j] \notin cs /\ \A k \in 1..(j - 1) : s[k] \in cs
             hi == CHOOSE j \in 1..Len(s) :
                      s[j] \notin cs /\ \A k \in (j + 1)..Len(s) : s[k] \in cs
         IN  SubSeq(s, lo, hi)

Digits == {"0", "1", "2", "3", "4", "5", "6", "7", "8", "9"}

DigitVal(c) ==
    CASE c = "0" -> 0 [] c = "1" -> 1 [] c = "2" -> 2 [] c = "3" -> 3
      [] c = "4" -> 4 [] c = "5" -> 5 [] c = "6" -> 6 [] c = "7" -> 7
      [] c = "8" -> 8 [] c = "9" -> 9

RECURSIVE DecimalVal(_)
DecimalVal(s) ==
    IF s = <<>> THEN 0
    ELSE 10 * DecimalVal(SubSeq(s, 1, Len(s) - 1)) + DigitVal(s[Len(s)])

IsDecimal(s) == s # <<>> /\ \A i \in 1..Len(s) : s[i] \in Digits

\* the sign of a numeric literal and what follows it
Unsigned(s) == IF s # <<>> /\ s[1] \in {"-", "+"} THEN Tail(s) ELSE s
Sign(s) == IF s # <<>> /\ s[1] = "-" THEN -1 ELSE 1

\* int(s): surrounding whitespace, an optional sign, decimal digits;
\* anything else raises ValueError (ok = FALSE)
PyInt(s) ==
    LET t == StripChars(s, {" "})
    IN  IF IsDecimal(Unsigned(t))
        THEN [ok |-> TRUE, v |-> Sign(t) * DecimalVal(Unsigned(t))]
        ELSE [ok |-> FALSE, v |-> 0]

\* float(s): as int(s) for the integer literals, and "nan" is a float;
\* anything else raises ValueError (ok = FALSE)
PyFloat(s) ==
    LET t == StripChars(s, {" "})
    IN  IF IsDecimal(Unsigned(t))
        THEN [ok |-> TRUE, v |-> Fl(Sign(t) * DecimalVal(Unsigned(t)))]
        ELSE IF Unsigned(t) = <<"n", "a", "n">>
        THEN [ok |-> TRUE, v |-> NaN]
        ELSE [ok |-> FALSE, v |-> NaN]


-----------------------------------------------------------------------------
(* The input file and xml.etree.ElementTree *)

GPX == <<"g", "p", "x">>
TRK == <<"t", "r", "k">>
TRKPT == <<"t", "r", "k", "p", "t">>
WPT == <<"w", "p", "t">>
ELE == <<"e", "l", "e">>

\* ElementTree's tag of an element: "{uri}local" inside a namespace
QName(ns, local) ==
    IF ns.none THEN local ELSE <<"{">> \o ns.val \o <<"}">> \o local

NoAttrib == [k \in {} |-> <<>>]

\* the attribute dictionaries over lat and lon: each key absent or one of
\* the given texts
Attribs(latTexts, lonTexts) ==
    UNION { { [k \in S |-> IF k = "lat" THEN a ELSE b] :
                a \in latTexts, b \in lonTexts } :
            S \in SUBSET {"lat", "lon"} }

\* the <ele> child of a track point: absent, empty (<ele/>, text None) or
\* with text
EleChildren(eleTexts) ==
    {[present |-> FALSE, text |-> NoneVal], [present |-> TRUE, text |-> NoneVal]}
        \cup {[present |-> TRUE, text |-> Some(t)] : t \in eleTexts}

\* the elements written in a file: a local name, attributes, an <ele> child
FileElems(names, attribs, eles) ==
    [name : names, attrib : attribs, ele : eles]

SeqsUpTo(S, n) == UNION {[1..k -> S] : k \in 0..n}

\* a readable, well-formed file: a root with a default namespace (or none)
\* and a sequence of elements under it
Documents(nss, roots, elems, n) ==
    [status : {"ok"}, ns : nss, root : roots, elems : SeqsUpTo(elems, n)]

\* a file that is not there, cannot be read, or is not well-formed XML
BadFile(status) == [status |-> status, ns |-> NoneVal, root |-> GPX, elems |-> <<>>]

\* ET.parse(path).getroot(): the element tree of the file, or the exception
\* raised. A default namespace declared on the root qualifies every element
\* tag and no attribute name.
ET_parse(f) ==
    LET child(e) ==
            [tag |-> QName(f.ns, e.name),
             attrib |-> e.attrib,
             children |-> IF e.ele.present
                          THEN <<[tag |-> QName(f.ns, ELE), text |-> e.ele.text]>>
                          ELSE <<>>]
        root == [tag |-> QName(f.ns, f.root),
                 attrib |-> NoAttrib,
                 children |-> [i \in 1..Len(f.elems) |-> child(f.elems[i])]]
    IN  CASE f.status = "missing" -> [exc |-> "FileNotFoundError", root |-> <<>>]
          [] f.status = "unreadable" -> [exc |-> "PermissionError", root |-> <<>>]
          [] f.status = "malformed" -> [exc |-> "ParseError", root |-> <<>>]
          [] OTHER -> [exc |-> "", root |-> root]

\* root.iter(tag): the root and its descendants with that tag, in document
\* order (the <ele> children are leaves with their own tag)
Iter(root, tag) ==
    (IF root.tag = tag THEN <<[tag |-> root.tag, attrib |-> root.attrib,
                               children |-> <<>>]>> ELSE <<>>)
        \o SelectSeq(root.children, LAMBDA e : e.tag = tag)

\* elem.find(tag): the first child with that tag, or None
Find(elem, tag) ==
    LET hits == SelectSeq(elem.children, LAMBDA c : c.tag = tag)
    IN  IF hits = <<>> THEN NoneVal ELSE Some(hits[1])

-----------------------------------------------------------------------------
(* parse_gpx *)

\* the namespace taken from the root tag, or None
DetectNs(root_tag) ==
    IF StartsWith(root_tag, <<"{">>) /\ Contains(root_tag, <<"}">> \o GPX)
    THEN Some(StripChars(SplitFirst(root_tag, "}"), {"{"}))
    ELSE NoneVal

nstag(ns, tag) ==
    IF ~ns.none /\ ns.val # <<>>
    THEN <<"{">> \o ns.val \o <<"}">> \o tag
    ELSE tag

\* the altitude of a track point: 0.0 unless <ele> has numeric text
TrkptAlt(trkpt, ns) ==
    LET ele_elem == Find(trkpt, nstag(ns, ELE))
    IN  IF ~ele_elem.none /\ ~ele_elem.val.text.none
        THEN IF PyFloat(ele_elem.val.text.val).ok
             THEN PyFloat(ele_elem.val.text.val).v
             ELSE Fl(0)
        ELSE Fl(0)

\* the body of the loop for one element: the point appended, or the
\* exception (KeyError, ValueError) that skips the element
TrkptPoint(trkpt, ns) ==
    IF "lat" \notin DOMAIN trkpt.attrib
    THEN [exc |-> "KeyError", pt |-> <<>>]
    ELSE IF ~PyFloat(trkpt.attrib["lat"]).ok
    THEN [exc |-> "ValueError", pt |-> <<>>]
    ELSE IF "lon" \notin DOMAIN trkpt.attrib
    THEN [exc |-> "KeyError", pt |-> <<>>]
    ELSE IF ~PyFloat(trkpt.attrib["lon"]).ok
    THEN [exc |-> "ValueError", pt |-> <<>>]
    ELSE [exc |-> "",
          pt |-> <<PyFloat(trkpt.attrib["lat"]).v,
                   PyFloat(trkpt.attrib["lon"]).v,
                   TrkptAlt(trkpt, ns)>>]

\* the loop over the track points found: coords after the elements given
RECURSIVE TrkptLoop(_, _, _)
TrkptLoop(trkpts, ns, acc) ==
    IF trkpts = <<>> THEN acc
    ELSE LET r == TrkptPoint(Head(trkpts), ns)
         IN  TrkptLoop(Tail(trkpts), ns,
                       IF r.exc = "" THEN Append(acc, r.pt) ELSE acc)

\* parse_gpx(gpx_path): the value returned (None or the list of points),
\* or the exception that leaves the function
parse_gpx(f) ==
    LET t == ET_parse(f)
    IN  IF t.exc \in {"ParseError", "FileNotFoundError"}
        THEN [exc |-> "", ret |-> NoneVal]
        ELSE IF t.exc # ""
        THEN [exc |-> t.exc, ret |-> NoneVal]
        ELSE LET ns == DetectNs(t.root.tag)
             IN  [exc |-> "",
                  ret |-> Some(TrkptLoop(Iter(t.root, nstag(ns, TRKPT)), ns, <<>>))]

-----------------------------------------------------------------------------
(* filter_coords_by_bbox *)

\* InBox with the longitude test forgotten
InBox_LatOnly(pt, la1, lo1, la2, lo2) ==
    FLe(PyMin(la1, la2), pt[1]) /\ FLe(pt[1], PyMax(la1, la2))

\* the test of the loop: min_lat <= lat <= max_lat and min_lon <= lon <= max_lon
InBox(pt, la1, lo1, la2, lo2) ==
    /\ FLe(PyMin(la1, la2), pt[1]) /\ FLe(pt[1], PyMax(la1, la2))
    /\ FLe(PyMin(lo1, lo2), pt[2]) /\ FLe(pt[2], PyMax(lo1, lo2))

RECURSIVE FilterLoop(_, _, _, _, _, _)
FilterLoop(cs, la1, lo1, la2, lo2, filtered) ==
    IF cs = <<>> THEN filtered
    ELSE FilterLoop(Tail(cs), la1, lo1, la2, lo2,
                    IF InBox(Head(cs), la1, lo1, la2, lo2)
                    THEN Append(filtered, Head(cs))
                    ELSE filtered)

\* cs is an option: None gives []
filter_coords_by_bbox(cs, la1, lo1, la2, lo2) ==
    IF cs.none THEN <<>> ELSE FilterLoop(cs.val, la1, lo1, la2, lo2, <<>>)

-----------------------------------------------------------------------------
(* create_plan_json *)

\* PlanItem with the altitude of the point in place of the default
PlanItem_GpxAlt(pt, do_jump_id, d_alt, acceptance_radius) ==
    [AMSLAltAboveTerrain |-> NoneVal,
     Altitude |-> pt[3],
     AltitudeMode |-> 1,
     autoContinue |-> TRUE,
     command |-> 16,
     doJumpId |-> do_jump_id,
     frame |-> 3,
     params |-> <<Fl(0), acceptance_radius, Fl(0), NoneVal, pt[1], pt[2], pt[3]>>,
     type |-> "SimpleItem"]

\* one SimpleItem of the mission
PlanItem(pt, do_jump_id, d_alt, acceptance_radius) ==
    [AMSLAltAboveTerrain |-> NoneVal,
     Altitude |-> d_alt,
     AltitudeMode |-> 1,
     autoContinue |-> TRUE,
     command |-> 16,
     doJumpId |-> do_jump_id,
     frame |-> 3,
     params |-> <<Fl(0), acceptance_radius, Fl(0), NoneVal, pt[1], pt[2], d_alt>>,
     type |-> "SimpleItem"]

\* for i in range(0, len(coords), step), from index i (0-based) on; a
\* negative step makes the range empty
RECURSIVE ItemLoop(_, _, _, _, _, _, _)
ItemLoop(cs, i, stp, do_jump_id, d_alt, acceptance_radius, items) ==
    IF stp < 0 \/ i >= Len(cs) THEN items
    ELSE ItemLoop(cs, i + stp, stp, do_jump_id + 1, d_alt, acceptance_radius,
                  Append(items, PlanItem(cs[i + 1], do_jump_id, d_alt,
                                         acceptance_radius)))

\* PlannedHome taken from the last point instead of the first
PlannedHome_LastPoint(cs, d_alt) == <<cs[Len(cs)][1], cs[Len(cs)][2], d_alt>>

\* planned_home: the first point of coords with the default altitude
PlannedHome(cs, d_alt) == <<cs[1][1], cs[1][2], d_alt>>

\* PlanItems with every step-th point counted from 1: range(step - 1, ...)
PlanItems_OffByOne(cs, stp, d_alt, acceptance_radius) ==
    ItemLoop(cs, stp - 1, stp, 1, d_alt, acceptance_radius, <<>>)

\* PlanItems with the first point skipped: range(step, ...)
PlanItems_SkipFirst(cs, stp, d_alt, acceptance_radius) ==
    ItemLoop(cs, stp, stp, 1, d_alt, acceptance_radius, <<>>)

\* the loop of lines 92-125: items, numbered from do_jump_id = 1
PlanItems(cs, stp, d_alt, acceptance_radius) ==
    ItemLoop(cs, 0, stp, 1, d_alt, acceptance_radius, <<>>)

Plan(items, planned_home) ==
    [fileType |-> "Plan",
     groundStation |-> "QGroundControl",
     version |-> 1,
     mission |-> [cruiseSpeed |-> 5,
                  firmwareType |-> 4,
                  hoverSpeed |-> 5,
                  items |-> items,
                  plannedHomePosition |-> planned_home,
                  vehicleType |-> 4,
                  version |-> 2],
     geoFence |-> [circles |-> <<>>, polygons |-> <<>>, version |-> 1],
     rallyPoints |-> [points |-> <<>>, version |-> 1]]

\* create_plan_json(coords, step, default_alt, acceptance_radius): the
\* value returned and the line of the return statement taken, or the
\* ValueError range() raises for a step of zero
create_plan_json(cs, stp, d_alt, acceptance_radius) ==
    IF cs = <<>>
    THEN [exc |-> "", ret |-> NoneVal, line |-> 90]
    ELSE IF stp = 0
    THEN [exc |-> "ValueError", ret |-> NoneVal, line |-> 100]
    ELSE LET items == PlanItems(cs, stp, d_alt, acceptance_radius)
         IN  IF items = <<>>
             THEN [exc |-> "", ret |-> NoneVal, line |-> 130]
             ELSE [exc |-> "",
                   ret |-> Some(Plan(items, PlannedHome(cs, d_alt))),
                   line |-> 157]

-----------------------------------------------------------------------------
(* main *)

\* sys.exit(code), and falling off the end of main (code 0)
Exit(code) == pc' = "exit" /\ exit_code' = code

\* StepRejected that lets a stride of zero through
StepRejected_Negative(stp) == stp < 0

\* line 171: if step < 1
StepRejected(stp) == stp < 1

\* lines 160-180: the argument count and the numeric arguments, in the
\* order the code converts them. argv here is sys.argv[1:], so
\* len(sys.argv) < 8 is Len(argv) < 7 and sys.argv[k] is argv[k].
ValidateArgs ==
    /\ entry = "main" /\ pc = "start"
    /\ IF Len(argv) < 7
       THEN Exit(1) /\ UNCHANGED <<step, lat1, lon1, lat2, lon2>>
       ELSE IF ~PyInt(argv[2]).ok
       THEN Exit(1) /\ UNCHANGED <<step, lat1, lon1, lat2, lon2>>
       ELSE IF StepRejected(PyInt(argv[2]).v)
       THEN Exit(1) /\ UNCHANGED <<step, lat1, lon1, lat2, lon2>>
       ELSE IF \E k \in 3..6 : ~PyFloat(argv[k]).ok
       THEN Exit(1) /\ UNCHANGED <<step, lat1, lon1, lat2, lon2>>
       ELSE /\ pc' = "parse"
            /\ step' = PyInt(argv[2]).v
            /\ lat1' = PyFloat(argv[3]).v
            /\ lon1' = PyFloat(argv[4]).v
            /\ lat2' = PyFloat(argv[5]).v
            /\ lon2' = PyFloat(argv[6]).v
            /\ UNCHANGED exit_code
    /\ UNCHANGED <<entry, argv, file, default_alt, coords, coords_in_box,
                   plan_data, ret_line, io>>

\* lines 183-189: parse the input. An exception parse_gpx lets through is
\* caught nowhere: the interpreter prints a traceback and exits with 1.
ParseStep ==
    /\ entry = "main" /\ pc = "parse"
    /\ io' = Append(io, "parse_input")
    /\ LET r == parse_gpx(file)
       IN  IF r.exc # ""
           THEN Exit(1) /\ UNCHANGED coords
           ELSE /\ coords' = r.ret
                /\ IF r.ret.none THEN Exit(2)
                   ELSE IF r.ret.val = <<>> THEN Exit(2)
                   ELSE pc' = "filter" /\ UNCHANGED exit_code
    /\ UNCHANGED <<entry, argv, file, step, lat1, lon1, lat2, lon2,
                   default_alt, coords_in_box, plan_data, ret_line>>

\* lines 192-198: keep the points in the box; none left ends the run with 0
FilterStep ==
    /\ entry = "main" /\ pc = "filter"
    /\ coords_in_box' = filter_coords_by_bbox(coords, lat1, lon1, lat2, lon2)
    /\ IF coords_in_box' = <<>>
       THEN Exit(0)
       ELSE pc' = "build" /\ UNCHANGED exit_code
    /\ UNCHANGED <<entry, argv, file, step, lat1, lon1, lat2, lon2,
                   default_alt, coords, plan_data, ret_line, io>>

\* lines 203-207: build the plan with default_alt=0.0, acceptance_radius=2.0
BuildStep ==
    /\ entry = "main" /\ pc = "build"
    /\ io' = Append(io, "create_plan_json")
    /\ default_alt' = Fl(0)
    /\ LET r == create_plan_json(coords_in_box, step, Fl(0), Fl(2))
       IN  /\ plan_data' = r.ret
           /\ ret_line' = r.line
           /\ IF r.exc # "" THEN Exit(1)
              ELSE IF r.ret.none THEN Exit(4)
              ELSE pc' = "save" /\ UNCHANGED exit_code
    /\ UNCHANGED <<entry, argv, file, step, lat1, lon1, lat2, lon2,
                   coords, coords_in_box>>

\* lines 210-221: open the output for writing and dump the plan; an IOError
\* of either ends the run with 5, otherwise main returns (exit status 0)
SaveStep ==
    /\ entry = "main" /\ pc = "save"
    /\ \E outcome \in {"open_fails", "write_fails", "written"} :
          /\ io' = io \o (IF outcome = "open_fails"
                          THEN <<"open_output_failed">>
                          ELSE IF outcome = "write_fails"
                          THEN <<"open_output", "write_output_failed">>
                          ELSE <<"open_output", "write_output">>)
          /\ IF outcome = "written" THEN Exit(0) ELSE Exit(5)
    /\ UNCHANGED <<entry, argv, file, step, lat1, lon1, lat2, lon2,
                   default_alt, coords, coords_in_box, plan_data, ret_line>>

-----------------------------------------------------------------------------
(* The callers that enter parse_gpx, filter_coords_by_bbox and             *)
(* create_plan_json directly                                               *)

CallParse ==
    /\ entry = "parse_gpx" /\ pc = "call"
    /\ LET r == parse_gpx(file)
       IN  /\ coords' = r.ret
           /\ pc' = IF r.exc # "" THEN "raised" ELSE "returned"
    /\ UNCHANGED <<entry, argv, file, step, lat1, lon1, lat2, lon2,
                   default_alt, coords_in_box, plan_data, ret_line, io,
                   exit_code>>

CallFilter ==
    /\ entry = "filter_coords_by_bbox" /\ pc = "call"
    /\ coords_in_box' = filter_coords_by_bbox(coords, lat1, lon1, lat2, lon2)
    /\ pc' = "returned"
    /\ UNCHANGED <<entry, argv, file, step, lat1, lon1, lat2, lon2,
                   default_alt, coords, plan_data, ret_line, io, exit_code>>

\* acceptance_radius keeps its default, 2.0
CallPlan ==
    /\ entry = "create_plan_json" /\ pc = "call"
    /\ LET r == create_plan_json(coords_in_box, step, default_alt, Fl(2))
       IN  /\ plan_data' = r.ret
           /\ ret_line' = r.line
           /\ pc' = IF r.exc # "" THEN "raised" ELSE "returned"
    /\ UNCHANGED <<entry, argv, file, step, lat1, lon1, lat2, lon2,
                   default_alt, coords, coords_in_box, io, exit_code>>

-----------------------------------------------------------------------------
(* Inputs *)

IN_PATH == <<"i">>
OUT_PATH == <<"o">>

StrideTexts == {<<"1">>, <<"2">>, <<"0">>, <<"-", "1">>, <<"x">>}
LatTexts == {<<"0">>, <<"2">>, <<"x">>, <<"n", "a", "n">>}
LonTexts == {<<"0">>, <<"2">>, <<"x">>}

\* command lines: all seven arguments, and two that are too short
Argvs ==
    {<<IN_PATH, s, a, b, c, d, OUT_PATH>> :
        s \in StrideTexts, a \in LatTexts, b \in LonTexts,
        c \in LatTexts, d \in LonTexts}
      \cup {<<>>, <<IN_PATH, <<"1">>, <<"0">>, <<"0">>, <<"2">>, <<"2">> >>}

Absent == [present |-> FALSE, text |-> NoneVal]

\* main's input files: track points at latitude 1 or 3 and longitude 1, and
\* track points without a latitude
MainElems ==
    FileElems({TRKPT},
              {a \in Attribs({<<"1">>, <<"3">>}, {<<"1">>}) : "lon" \in DOMAIN a},
              {Absent})

MainFiles ==
    {BadFile(st) : st \in {"missing", "unreadable", "malformed"}}
      \cup Documents({NoneVal, Some(<<"u">>)}, {GPX}, MainElems, MaxElems)

\* parse_gpx's input files: roots gpx and trk, without a namespace and in the
\* namespaces "u" and "{u"; track points with every combination of absent,
\* numeric and non-numeric lat, lon and <ele>, and a way point
ParseElems ==
    FileElems({TRKPT},
              Attribs({<<" ", "1">>, <<"2">>, <<"x">>},
                      {<<"-", "2">>, <<"1", "x">>}),
              EleChildren({<<"3">>, <<"x">>}))
      \cup FileElems({WPT}, Attribs({<<"2">>}, {<<"-", "2">>}),
                     EleChildren({<<"3">>}))

ParseFiles ==
    {BadFile(st) : st \in {"missing", "unreadable", "malformed"}}
      \cup Documents({NoneVal, Some(<<"u">>), Some(<<"{", "u">>)}, {GPX, TRK},
                     ParseElems, MaxElems)

Floats == {Fl(n) : n \in 0..MaxCoord} \cup {NaN}

\* the filter's points: a grid, and a point whose latitude is NaN
BoxPoints ==
    {<<Fl(a), Fl(b), Fl(0)>> : a \in 0..MaxCoord, b \in 0..MaxCoord}
      \cup {<<NaN, Fl(0), Fl(0)>>}

\* the builder's points: pairwise different, with altitudes 0 and 7
PlanPoints == {<<Fl(a), Fl(-a), Fl(7 * (a % 2))>> : a \in 0..MaxCoord}

Strides == (-1)..MaxStride
DefaultAlts == {Fl(0), Fl(5)}

-----------------------------------------------------------------------------
(* Specifications *)

\* what every run starts with, whatever it enters through
Fresh ==
    /\ pc \in {"start", "call"}
    /\ exit_code = -1 /\ io = <<>>
    /\ plan_data = NoneVal /\ ret_line = 0

InitMain ==
    /\ entry = "main" /\ pc = "start" /\ Fresh
    /\ argv \in Argvs
    /\ file \in MainFiles
    /\ step = 0 /\ lat1 = Fl(0) /\ lon1 = Fl(0) /\ lat2 = Fl(0) /\ lon2 = Fl(0)
    /\ default_alt = Fl(0)
    /\ coords = NoneVal /\ coords_in_box = <<>>

InitParse ==
    /\ entry = "parse_gpx" /\ pc = "call" /\ Fresh
    /\ argv = <<>>
    /\ file \in ParseFiles
    /\ step = 0 /\ lat1 = Fl(0) /\ lon1 = Fl(0) /\ lat2 = Fl(0) /\ lon2 = Fl(0)
    /\ default_alt = Fl(0)
    /\ coords = NoneVal /\ coords_in_box = <<>>

InitFilter ==
    /\ entry = "filter_coords_by_bbox" /\ pc = "call" /\ Fresh
    /\ argv = <<>>
    /\ file = BadFile("missing")
    /\ step = 0
    /\ lat1 \in Floats /\ lon1 \in Floats /\ lat2 \in Floats /\ lon2 \in Floats
    /\ default_alt = Fl(0)
    /\ coords \in {NoneVal} \cup {Some(cs) : cs \in SeqsUpTo(BoxPoints, MaxBoxLen)}
    /\ coords_in_box = <<>>

InitPlan ==
    /\ entry = "create_plan_json" /\ pc = "call" /\ Fresh
    /\ argv = <<>>
    /\ file = BadFile("missing")
    /\ step \in Strides
    /\ lat1 = Fl(0) /\ lon1 = Fl(0) /\ lat2 = Fl(0) /\ lon2 = Fl(0)
    /\ default_alt \in DefaultAlts
    /\ coords = NoneVal
    /\ coords_in_box \in SeqsUpTo(PlanPoints, MaxLen)

Init == InitMain

Next ==
    \/ ValidateArgs
    \/ ParseStep
    \/ FilterStep
    \/ BuildStep
    \/ SaveStep

\* a run of the program: main from the command line
Spec == Init /\ [][Next]_vars

\* calls of parse_gpx
NextParse == CallParse
SpecParse == InitParse /\ [][NextParse]_vars

\* calls of filter_coords_by_bbox
NextFilter == CallFilter
SpecFilter == InitFilter /\ [][NextFilter]_vars

\* calls of create_plan_json
NextPlan == CallPlan
SpecPlan == InitPlan /\ [][NextPlan]_vars

\* every caller of create_plan_json: main, and direct calls
InitCallers == InitMain \/ InitPlan
NextCallers == Next \/ CallPlan
SpecCallers == InitCallers /\ [][NextCallers]_vars

-----------------------------------------------------------------------------
(* What the properties speak of *)

\* the command line passes main's validation: seven arguments, a stride that
\* is an integer >= 1, four coordinates that are floats
ArgsValid(a) ==
    /\ Len(a) >= 7
    /\ PyInt(a[2]).ok /\ PyInt(a[2]).v >= 1
    /\ \A k \in 3..6 : PyFloat(a[k]).ok

Happened(ev) == \E i \in 1..Len(io) : io[i] = ev

\* the output file was not opened (so neither created nor written)
OutputUntouched ==
    \A i \in 1..Len(io) :
        io[i] \notin {"open_output", "open_output_failed", "write_output",
                      "write_output_failed"}

MainExited == entry = "main" /\ pc = "exit"

\* x lies between the smaller and the larger of a and b, bounds included
Within(x, a, b) == FLe(PyMin(a, b), x) /\ FLe(x, PyMax(a, b))

\* the point lies in the box spanned by the corners of the run
BoxHolds(pt) == Within(pt[1], lat1, lat2) /\ Within(pt[2], lon1, lon2)

PlanReturned == entry = "create_plan_json" /\ pc = "returned"

Items == plan_data.val.mission.items

\* ceil(l / s) for s >= 1
CeilDiv(l, s) == (l + s - 1) \div s

-----------------------------------------------------------------------------
(* C1 *)

\* C1: with valid arguments, a run whose input file is missing, unreadable
\* or malformed (parse_gpx returning None for each), or well-formed with no
\* usable point (parse_gpx returning []), ends with exit code 2 and without
\* touching the output file.
C1_DocumentFailureExits2 ==
    (MainExited /\ ArgsValid(argv)
        /\ (file.status # "ok" \/ parse_gpx(file).ret.val = <<>>))
    => /\ exit_code = 2
       /\ OutputUntouched
       /\ file.status # "ok"
            => parse_gpx(file).exc = "" /\ parse_gpx(file).ret.none

-----------------------------------------------------------------------------
(* C2 *)

\* C2: when the input parses to at least one point and the box holds none of
\* the parsed points, main ends with exit code 0, having neither called the
\* plan builder nor opened the output file.
C2_EmptyBoxExits0 ==
    (MainExited /\ ArgsValid(argv) /\ ~coords.none /\ coords.val # <<>>
        /\ \A i \in 1..Len(coords.val) : ~BoxHolds(coords.val[i]))
    => exit_code = 0 /\ io = <<"parse_input">>

C2_Witness ==
    /\ MainExited /\ ~coords.none /\ Len(coords.val) = 2
    /\ \A i \in 1..Len(coords.val) : ~BoxHolds(coords.val[i])
    /\ Within(coords.val[1][1], lat1, lat2)
    /\ exit_code = 0

-----------------------------------------------------------------------------
(* C3 *)

\* C3: with fewer than 7 arguments, a stride that is no integer >= 1 or a
\* coordinate that is no float, main does no file I/O at any point of the
\* run and exits with code 1.
C3_BadArgsExit1BeforeIO ==
    (entry = "main" /\ ~ArgsValid(argv))
    => /\ io = <<>>
       /\ pc \in {"start", "exit"}
       /\ pc = "exit" => exit_code = 1

C3_Witness ==
    /\ MainExited /\ exit_code = 1 /\ io = <<>>
    /\ Len(argv) = 7 /\ PyInt(argv[2]).ok /\ PyInt(argv[2]).v = 0
    /\ \A k \in 3..6 : PyFloat(argv[k]).ok
    /\ file.status = "ok"

-----------------------------------------------------------------------------
(* C4 *)

\* C4: filter_coords_by_bbox returns the subsequence, in order, of the points
\* with min(lat1,lat2) <= lat <= max(lat1,lat2) and min(lon1,lon2) <= lon <=
\* max(lon1,lon2); swapping the two corners gives the same result, a box of
\* zero area keeps only points at its coordinate, and an empty input gives
\* an empty output.
C4_BoxSubsequenceEitherCornerOrder ==
    (entry = "filter_coords_by_bbox" /\ pc = "returned" /\ ~coords.none)
    => /\ coords_in_box = SelectSeq(coords.val, BoxHolds)
       /\ coords_in_box
            = filter_coords_by_bbox(coords, lat2, lon2, lat1, lon1)
       /\ (lat1 = lat2 /\ lon1 = lon2)
            => \A i \in 1..Len(coords_in_box) :
                  coords_in_box[i][1] = lat1 /\ coords_in_box[i][2] = lon1
       /\ coords.val = <<>> => coords_in_box = <<>>

-----------------------------------------------------------------------------
(* C5 *)

\* C5: for a non-empty sequence of length L and a stride S >= 1 the plan has
\* ceil(L / S) items, and item k (from 0) carries in params slots 5 and 6 the
\* latitude and longitude of the point at 0-based index k*S.
C5_StrideSelection ==
    (PlanReturned /\ step >= 1 /\ coords_in_box # <<>>)
    => /\ ~plan_data.none
       /\ Len(Items) = CeilDiv(Len(coords_in_box), step)
       /\ \A k \in 0..(Len(Items) - 1) :
            /\ k * step < Len(coords_in_box)
            /\ Items[k + 1].params[5] = coords_in_box[k * step + 1][1]
            /\ Items[k + 1].params[6] = coords_in_box[k * step + 1][2]

C5_Witness ==
    /\ PlanReturned /\ step = 2 /\ Len(coords_in_box) = 4
    /\ ~plan_data.none /\ Len(Items) = 2
    /\ coords_in_box[3] # coords_in_box[2]
    /\ Items[2].params[5] = coords_in_box[3][1]

-----------------------------------------------------------------------------
(* C6 *)

\* C6: the plan's plannedHomePosition is [lat, lon, default_alt] with lat and
\* lon of the first point of the input sequence, and is the same for every
\* stride >= 1.
C6_HomeIsFirstPoint ==
    (PlanReturned /\ ~plan_data.none)
    => /\ plan_data.val.mission.plannedHomePosition
            = <<coords_in_box[1][1], coords_in_box[1][2], default_alt>>
       /\ \A s \in 1..MaxStride :
            create_plan_json(coords_in_box, s, default_alt, Fl(2))
                .ret.val.mission.plannedHomePosition
              = plan_data.val.mission.plannedHomePosition

C6_Witness ==
    /\ PlanReturned /\ ~plan_data.none /\ step = 3
    /\ Len(coords_in_box) = 2
    /\ coords_in_box[1] # coords_in_box[2]
    /\ coords_in_box[1][3] # default_alt

-----------------------------------------------------------------------------
(* C7 *)

\* C7: the doJumpId values of the plan's items are 1, 2, ..., count in order,
\* and every item's Altitude and params slot 7 equal default_alt whatever the
\* altitude of the source point.
C7_JumpIdsAndAltitude ==
    (PlanReturned /\ ~plan_data.none)
    => \A i \in 1..Len(Items) :
          /\ Items[i].doJumpId = i
          /\ Items[i].Altitude = default_alt
          /\ Items[i].params[7] = default_alt

C7_Witness ==
    /\ PlanReturned /\ ~plan_data.none /\ Len(Items) = 3
    /\ \E i \in 1..Len(coords_in_box) : coords_in_box[i][3] # default_alt

-----------------------------------------------------------------------------
(* C8 *)

\* the points of the track-point elements of a file that have numeric lat
\* and lon, in document order, with altitude 0.0 where <ele> is absent,
\* empty or not numeric
UsableTrkpt(e) ==
    /\ e.name = TRKPT
    /\ "lat" \in DOMAIN e.attrib /\ "lon" \in DOMAIN e.attrib
    /\ PyFloat(e.attrib["lat"]).ok /\ PyFloat(e.attrib["lon"]).ok

PointOf(e) ==
    <<PyFloat(e.attrib["lat"]).v,
      PyFloat(e.attrib["lon"]).v,
      IF e.ele.present /\ ~e.ele.text.none /\ PyFloat(e.ele.text.val).ok
      THEN PyFloat(e.ele.text.val).v
      ELSE Fl(0)>>

UsablePoints(f) ==
    LET usable == SelectSeq(f.elems, UsableTrkpt)
    IN  [i \in 1..Len(usable) |-> PointOf(usable[i])]

\* C8: for a well-formed document parse_gpx returns, in document order, one
\* point per track-point element with numeric lat and lon and none for the
\* others, with altitude 0.0 for an absent or non-numeric <ele>.
C8_OnePointPerUsableTrkpt ==
    (entry = "parse_gpx" /\ pc \in {"returned", "raised"} /\ file.status = "ok")
    => pc = "returned" /\ ~coords.none /\ coords.val = UsablePoints(file)

-----------------------------------------------------------------------------
(* C9 *)

\* C9: a document with a namespace-qualified root gives the same points as
\* the same document without the namespace.
C9_NamespaceInvariance ==
    (entry = "parse_gpx" /\ pc = "returned" /\ file.status = "ok"
        /\ ~file.ns.none)
    => coords = parse_gpx([file EXCEPT !.ns = NoneVal]).ret

-----------------------------------------------------------------------------
(* C10 *)

\* C10: for a stride >= 1 create_plan_json returns None exactly for an empty
\* input and never through its "no items" return (line 130); main never
\* exits with code 4, and what it gets from the builder is a plan.
C10_NoneOnlyForEmptyInput ==
    /\ (PlanReturned /\ step >= 1)
         => /\ plan_data.none <=> coords_in_box = <<>>
            /\ ret_line # 130
    /\ entry = "main"
         => /\ exit_code # 4
            /\ Happened("create_plan_json")
                 => ~plan_data.none /\ ret_line = 157

C10_Witness ==
    /\ PlanReturned /\ step > Len(coords_in_box) /\ Len(coords_in_box) = 2
    /\ ~plan_data.none /\ Len(Items) = 1

-----------------------------------------------------------------------------
(* Where the refuted properties do hold *)

\* The input failures parse_gpx handles (missing file, malformed markup, no
\* usable point) end the run with exit code 2 and the output untouched.
HandledInputFailuresExit2 ==
    (MainExited /\ ArgsValid(argv)
        /\ (file.status \in {"missing", "malformed"}
              \/ (file.status = "ok" /\ parse_gpx(file).ret.val = <<>>)))
    => exit_code = 2 /\ OutputUntouched

\* With no NaN among the corners the filter does not depend on their order.
FilterSymmetricWithoutNaN ==
    (entry = "filter_coords_by_bbox" /\ pc = "returned"
        /\ ~lat1.nan /\ ~lon1.nan /\ ~lat2.nan /\ ~lon2.nan)
    => coords_in_box = filter_coords_by_bbox(coords, lat2, lon2, lat1, lon1)

\* the namespace parse_gpx works with is the namespace of the document
NamespaceDetected(f) == DetectNs(QName(f.ns, f.root)) = f.ns

\* Where the namespace is detected, the points are those of the usable track
\* points, and do not depend on the namespace.
ParseExactWhenNamespaceDetected ==
    (entry = "parse_gpx" /\ pc = "returned" /\ file.status = "ok"
        /\ NamespaceDetected(file))
    => /\ coords = Some(UsablePoints(file))
       /\ coords = parse_gpx([file EXCEPT !.ns = NoneVal]).ret
=============================================================================
